---- MODULE Spec2Model ----
(***************************************************************************)
(* Model of jclearn: prob.py (ProbProber, Harville order probabilities     *)
(* with lazily cached level tensors) and kelly.py (MultiKellyBettor).      *)
(*                                                                         *)
(* numpy floats are modelled as exact rationals <<num, den>> in lowest     *)
(* terms with den > 0.  Array indices are 1-based here (0-based in the     *)
(* source); axis order is kept.                                            *)
(***************************************************************************)
EXTENDS Integers, Sequences, FiniteSets, TLC

VARIABLES
    \* one ProbProber instance and its caller
    wos, c, p_i, p_ij, p_ijk, p_ijkl, ret, call, computed,
    \* threads sharing the instance
    pc, tpool, tret, ti,
    \* one MultiKellyBettor instance
    odds, prob, label, kphase, kmsg, prop

pvars == <<wos, c, p_i, p_ij, p_ijk, p_ijkl, ret, call, computed>>
tvars == <<pc, tpool, tret, ti>>
kvars == <<odds, prob, label, kphase, kmsg, prop>>
vars == <<pvars, tvars, kvars>>

(***************************************************************************)
(* Bounds of the model                                                     *)
(***************************************************************************)
MaxN == 5
MaxComputes == 2
NThreads == 2
MaxK == 3
Weights == {1, 2}

(***************************************************************************)
(* Exact rational arithmetic                                               *)
(***************************************************************************)
RECURSIVE GCD(_, _)
GCD(a, b) == IF b = 0 THEN a ELSE GCD(b, a % b)

Abs(x) == IF x < 0 THEN -x ELSE x

Frac(n, d) ==
    LET g == GCD(Abs(n), Abs(d))
        s == IF d < 0 THEN -1 ELSE 1
    IN  <<(s * n) \div g, (s * d) \div g>>

Zero == <<0, 1>>
One == <<1, 1>>

RAdd(x, y) ==
    IF x[1] = 0 THEN y
    ELSE IF y[1] = 0 THEN x
    ELSE LET g == GCD(x[2], y[2])
             m == y[2] \div g
             k == x[2] \div g
         IN  Frac(x[1] * m + y[1] * k, x[2] * m)

RNeg(x) == <<-x[1], x[2]>>
RSub(x, y) == RAdd(x, RNeg(y))
RMul(x, y) == Frac(x[1] * y[1], x[2] * y[2])
\* y # 0
RDiv(x, y) == Frac(x[1] * y[2], x[2] * y[1])
RLess(x, y) == x[1] * y[2] < y[1] * x[2]

RECURSIVE Pow(_, _)
Pow(b, e) == IF e = 0 THEN 1 ELSE b * Pow(b, e - 1)

RECURSIVE SumInts(_, _)
SumInts(f, n) == IF n = 0 THEN 0 ELSE f[n] + SumInts(f, n - 1)

Lcm(a, b) == IF a = 1 THEN b ELSE IF b = 1 THEN a ELSE (a \div GCD(a, b)) * b

RECURSIVE LcmDen(_, _, _)
\* least common denominator of f[lo..hi]
LcmDen(f, lo, hi) ==
    IF lo > hi THEN 1
    ELSE IF lo = hi THEN f[lo][2]
    ELSE LET m == (lo + hi) \div 2
         IN  Lcm(LcmDen(f, lo, m), LcmDen(f, m + 1, hi))

RECURSIVE SumNum(_, _, _, _)
\* sum of the numerators of f[lo..hi] over the denominator l
SumNum(f, lo, hi, l) ==
    IF lo > hi THEN 0
    ELSE IF lo = hi THEN f[lo][1] * (l \div f[lo][2])
    ELSE LET m == (lo + hi) \div 2
         IN  SumNum(f, lo, m, l) + SumNum(f, m + 1, hi, l)

\* f[1] + ... + f[n] for rational-valued f
RSum(f, n) ==
    LET g == IF f = f THEN f ELSE f
        l == LcmDen(g, 1, n)
    IN  Frac(SumNum(g, 1, n, l), l)

RECURSIVE SeqOf(_)
\* the elements of a finite set, in some fixed order
SeqOf(S) ==
    IF S = {} THEN <<>>
    ELSE LET x == CHOOSE y \in S : TRUE IN <<x>> \o SeqOf(S \ {x})

\* an array is materialised when it is built: evaluate f once, not per access
Eager(f) == LET g == f IN IF g = g THEN g ELSE g

(***************************************************************************)
(* prob.py : ProbProber                                                    *)
(***************************************************************************)
None == [tag |-> "None"]
Arr(a) == [tag |-> "ndarray", val |-> a]
ValueError(m) == [tag |-> "ValueError", msg |-> m]
IsNone(x) == x.tag = "None"
IsArr(x) == x.tag = "ndarray"

pools == {"win", "quinella", "tierce", "trio", "place", "place_q", "quartet", "first_4"}

\* __init__: a coefficient list shorter than 4 is extended with 1s
Pad(cin) == [k \in 1..4 |-> IF k <= Len(cin) THEN cin[k] ELSE 1]

check_dim_lt(dim, least_dim) == dim < least_dim

\* raises exactly when dim <= least_dim
check_dim(dim, least_dim) == dim <= least_dim

check_pool(pool) == pool \notin pools

\* Arrays are stored flat in row-major (C) order, as numpy lays them out:
\* entry [i, j, k, l] of an n x n x n x n array is cell ((i*n + j)*n + k)*n + l.
At2(t, n, i, j) == t[(i - 1) * n + j]
At3(t, n, i, j, k) == t[((i - 1) * n + (j - 1)) * n + k]
At4(t, n, i, j, k, l) == t[(((i - 1) * n + (j - 1)) * n + (k - 1)) * n + l]

Mk1(n, F(_)) == Eager([x \in 1..n |-> F(x)])
Mk2(n, F(_, _)) ==
    Eager([x \in 1..(n * n) |-> F(((x - 1) \div n) + 1, ((x - 1) % n) + 1)])
Mk3(n, F(_, _, _)) ==
    Eager([x \in 1..(n * n * n) |->
              F(((x - 1) \div (n * n)) + 1, (((x - 1) \div n) % n) + 1, ((x - 1) % n) + 1)])
Mk4(n, F(_, _, _, _)) ==
    Eager([x \in 1..(n * n * n * n) |->
              F(((x - 1) \div (n * n * n)) + 1, (((x - 1) \div (n * n)) % n) + 1,
                (((x - 1) \div n) % n) + 1, ((x - 1) % n) + 1)])

\* nppow = np.power(wos, e); nppow / nppow.sum()
NormPow(w, e) ==
    LET nppow == [i \in 1..Len(w) |-> Pow(w[i], e)]
        s == SumInts(nppow, Len(w))
    IN  Mk1(Len(w), LAMBDA i : Frac(nppow[i], s))

Level1(w, cc) == NormPow(w, cc[1])

Level2Raw_rowdiv(w, cc, pi) ==
    LET p_i2 == NormPow(w, cc[2])
    IN  Mk2(Len(w), LAMBDA i, j : RMul(p_i2[i], RDiv(pi[j], RSub(One, p_i2[i]))))

\* p_i2.reshape(-1, 1) * (self.p_i / (1 - p_i2))
Level2Raw(w, cc, pi) ==
    LET p_i2 == NormPow(w, cc[2])
    IN  Mk2(Len(w), LAMBDA i, j : RMul(p_i2[i], RDiv(pi[j], RSub(One, p_i2[j]))))

\* self.p_ij[np.diag_indices(dim, ndim = 2)] = 0
MaskDiag2(t, dim) == Mk2(dim, LAMBDA i, j : IF i = j THEN Zero ELSE At2(t, dim, i, j))

\* np.divide(a, b, where = b != 0) with no out array: a cell where b = 0 keeps
\* whatever the freshly allocated buffer held (u)
DivideWhere(a, b, u) == IF b # Zero THEN RDiv(a, b) ELSE u

Level3Raw(w, cc, pij, u) ==
    LET n == Len(w)
        p_i3 == NormPow(w, cc[3])
        \* comp = 1 - comp - comp.T; comp = np.divide(self.p_ij, comp, where = comp != 0)
        comp == Mk2(n, LAMBDA i, j :
                    DivideWhere(At2(pij, n, i, j), RSub(RSub(One, p_i3[i]), p_i3[j]), u))
    \* comp.reshape(*comp.shape, -1) * p_i3.reshape(1, dim)
    IN  Mk3(n, LAMBDA i, j, k : RMul(At2(comp, n, i, j), p_i3[k]))

\* self.p_ijk.transpose([2, 1, 0])[np.diag_indices(dim, ndim = 2)] = 0 : cells [*, a, a]
Mask3_210(t, dim) ==
    Mk3(dim, LAMBDA i, j, k : IF j = k THEN Zero ELSE At3(t, dim, i, j, k))

\* self.p_ijk.transpose([2, 0, 1])[np.diag_indices(dim, ndim = 2)] = 0 : cells [a, *, a]
Mask3_201(t, dim) ==
    Mk3(dim, LAMBDA i, j, k : IF i = k THEN Zero ELSE At3(t, dim, i, j, k))

Level4Raw(w, cc, pijk, u) ==
    LET n == Len(w)
        p_i4 == NormPow(w, cc[4])
        \* comp = np.tile(p_i4, (dim, dim, 1)), so comp[i, j, k] = p_i4[k];
        \* comp = 1 - comp - comp.T - comp.transpose([0, 2, 1])
        comp == Mk3(n, LAMBDA i, j, k :
                    DivideWhere(At3(pijk, n, i, j, k),
                                RSub(RSub(RSub(One, p_i4[k]), p_i4[i]), p_i4[j]), u))
    IN  Mk4(n, LAMBDA i, j, k, l : RMul(At3(comp, n, i, j, k), p_i4[l]))

\* one pass of the loop body, lines 106-111, for index m
Mask4At(t, dim, m) ==
    Mk4(dim, LAMBDA i, j, k, l :
        IF \/ (i = m /\ l = m) \/ (j = m /\ l = m) \/ (k = m /\ l = m)
           \/ (i = m /\ k = m) \/ (j = m /\ k = m) \/ (i = m /\ j = m)
        THEN Zero ELSE At4(t, dim, i, j, k, l))

RECURSIVE Mask4Loop(_, _, _)
\* for i in range(dim): passes 1..m
Mask4Loop(t, dim, m) == IF m = 0 THEN t ELSE Mask4At(Mask4Loop(t, dim, m - 1), dim, m)

\* the permutations of 1..n, as tuples (itertools.permutations(range(n)))
Perms(n) == {pm \in [1..n -> 1..n] : \A a, b \in 1..n : pm[a] = pm[b] => a = b}

Perms3 == SeqOf(Perms(3))
Perms4 == SeqOf(Perms(4))
Inverse(pm) == Eager([b \in DOMAIN pm |-> CHOOSE a \in DOMAIN pm : pm[a] = b])
Inv3 == Eager([a \in 1..Len(Perms3) |-> Inverse(Perms3[a])])
Inv4 == Eager([a \in 1..Len(Perms4) |-> Inverse(Perms4[a])])

\* entry x of t.transpose(Perms3[a]): t[y] with y[pm[b]] = x[b]
Transposed3(t, n, a, x) ==
    LET q == Inv3[a] IN At3(t, n, x[q[1]], x[q[2]], x[q[3]])

\* entry x of t.transpose(Perms4[a])
Transposed4(t, n, a, x) ==
    LET q == Inv4[a] IN At4(t, n, x[q[1]], x[q[2]], x[q[3]], x[q[4]])

quinella_notransposed(pij, dim) ==
    Mk2(dim, LAMBDA i, j : RAdd(At2(pij, dim, i, j), At2(pij, dim, i, j)))

\* self.p_ij + self.p_ij.T
quinella(pij, dim) == Mk2(dim, LAMBDA i, j : RAdd(At2(pij, dim, i, j), At2(pij, dim, j, i)))

\* trio = 0; for perm in permutations(range(3)): trio += self.p_ijk.transpose(perm)
trio(pijk, dim) ==
    Mk3(dim, LAMBDA i, j, k :
        RSum([a \in 1..Len(Perms3) |-> Transposed3(pijk, dim, a, <<i, j, k>>)], Len(Perms3)))

\* self.p_i + self.p_ij.sum(axis = 1) + self.p_ijk.sum(axis = 1).sum(axis = 0)
place(pi, pij, pijk, dim) ==
    LET p_rk2 == Mk1(dim, LAMBDA m : RSum([j \in 1..dim |-> At2(pij, dim, m, j)], dim))
        s1 == Mk2(dim, LAMBDA i, k : RSum([j \in 1..dim |-> At3(pijk, dim, i, j, k)], dim))
        p_rk3 == Mk1(dim, LAMBDA k : RSum([i \in 1..dim |-> At2(s1, dim, i, k)], dim))
    IN  Mk1(dim, LAMBDA m : RAdd(RAdd(pi[m], p_rk2[m]), p_rk3[m]))

\* p_dot_i_j = p_ijk.sum(axis = 0); p_i_dot_j = p_ijk.sum(axis = 1)
place_q(pij, pijk, dim) ==
    LET p_dot_i_j == Mk2(dim, LAMBDA a, b :
                         RSum([i \in 1..dim |-> At3(pijk, dim, i, a, b)], dim))
        p_i_dot_j == Mk2(dim, LAMBDA a, b :
                         RSum([j \in 1..dim |-> At3(pijk, dim, a, j, b)], dim))
    IN  Mk2(dim, LAMBDA a, b :
            RAdd(RAdd(RAdd(At2(pij, dim, a, b), At2(pij, dim, b, a)),
                      RAdd(At2(p_i_dot_j, dim, a, b), At2(p_i_dot_j, dim, b, a))),
                 RAdd(At2(p_dot_i_j, dim, a, b), At2(p_dot_i_j, dim, b, a))))

\* first_4 = 0; for perm in permutations(range(4)): first_4 += self.p_ijkl.transpose(perm)
first_4(pijkl, dim) ==
    Mk4(dim, LAMBDA i, j, k, l :
        RSum([a \in 1..Len(Perms4) |-> Transposed4(pijkl, dim, a, <<i, j, k, l>>)],
             Len(Perms4)))

(***************************************************************************)
(* ProbProber.transform, statement by statement.  st is the instance's     *)
(* cache together with the call's return value; once st.done the           *)
(* remaining statements are skipped (return / raise).                      *)
(***************************************************************************)
Self ==
    [p_i |-> p_i, p_ij |-> p_ij, p_ijk |-> p_ijk, p_ijkl |-> p_ijkl,
     computed |-> computed, ret |-> None, done |-> FALSE]

Return(st, v) == [st EXCEPT !.ret = v, !.done = TRUE]

NotEnough == ValueError("Not enough competitors")

NeedCompute_always(slot) == TRUE

\* `if self.p_... is None`
NeedCompute(slot) == IsNone(slot)

L46(st, pool) ==
    IF check_pool(pool) THEN Return(st, ValueError("Invalid pool")) ELSE st

L49(st) ==
    IF st.done \/ ~NeedCompute(st.p_i) THEN st
    ELSE [st EXCEPT !.p_i = Arr(Level1(wos, c)), !.computed[1] = @ + 1]

L53_noreturn(st, pool) == st

L53(st, pool) == IF st.done \/ pool # "win" THEN st ELSE Return(st, st.p_i)

L56(st) == IF st.done \/ ~check_dim(Len(wos), 2) THEN st ELSE Return(st, NotEnough)

L58(st) ==
    IF st.done \/ ~NeedCompute(st.p_ij) THEN st
    ELSE [st EXCEPT !.p_ij = Arr(MaskDiag2(Level2Raw(wos, c, st.p_i.val), Len(wos))),
                    !.computed[2] = @ + 1]

L64(st, pool) ==
    IF st.done \/ pool # "quinella" THEN st
    ELSE Return(st, Arr(quinella(st.p_ij.val, Len(wos))))

L67(st) == IF st.done \/ ~check_dim(Len(wos), 3) THEN st ELSE Return(st, NotEnough)

L69(st, u) ==
    IF st.done \/ ~NeedCompute(st.p_ijk) THEN st
    ELSE [st EXCEPT !.p_ijk = Arr(Mask3_201(Mask3_210(Level3Raw(wos, c, st.p_ij.val, u),
                                                      Len(wos)), Len(wos))),
                    !.computed[3] = @ + 1]

L79(st, pool) ==
    IF st.done THEN st
    ELSE IF pool = "tierce" THEN Return(st, st.p_ijk)
    ELSE IF pool = "trio" THEN Return(st, Arr(trio(st.p_ijk.val, Len(wos))))
    ELSE IF pool = "place"
         THEN Return(st, Arr(place(st.p_i.val, st.p_ij.val, st.p_ijk.val, Len(wos))))
    ELSE IF pool = "place_q"
         THEN Return(st, Arr(place_q(st.p_ij.val, st.p_ijk.val, Len(wos))))
    ELSE st

L97(st) == IF st.done \/ ~check_dim(Len(wos), 4) THEN st ELSE Return(st, NotEnough)

L99(st, u) ==
    IF st.done \/ ~NeedCompute(st.p_ijkl) THEN st
    ELSE [st EXCEPT !.p_ijkl = Arr(Mask4Loop(Level4Raw(wos, c, st.p_ijk.val, u),
                                             Len(wos), Len(wos))),
                    !.computed[4] = @ + 1]

L113(st, pool) ==
    IF st.done THEN st
    ELSE IF pool = "quartet" THEN Return(st, st.p_ijkl)
    ELSE IF pool = "first_4" THEN Return(st, Arr(first_4(st.p_ijkl.val, Len(wos))))
    ELSE Return(st, None)

Run(pool, u) ==
    L113(L99(L97(L79(L69(L67(L64(L58(L56(L53(L49(L46(Self, pool)), pool))), pool)), u),
                     pool)), u), pool)

\* names a caller may pass: the eight pools and one unrecognised name
PoolNames == pools \cup {"exacta"}

\* what an uninitialised cell may hold
Uninit == {Zero, One}

\* win odds handed to the constructor: every vector over Weights up to length 4
\* (the last least_dim, line 97), and beyond that one favourite among equal outsiders
Favourite(n) == [i \in 1..n |-> IF i = 2 THEN 2 ELSE 1]
WosInputs ==
    UNION {[1..n -> Weights] : n \in 1..(IF MaxN < 4 THEN MaxN ELSE 4)}
        \cup {Favourite(n) : n \in 5..MaxN}

\* coefficient lists handed to the constructor: the default, one rank corrected
\* at a time (shorter lists are padded), every rank corrected
CoefLists == {<<>>, <<2>>, <<1, 2>>, <<1, 1, 2>>, <<1, 1, 1, 2>>, <<2, 2, 2, 2>>}

NoCall == "(none)"

\* no thread uses the instance
NoThreads ==
    /\ pc = [t \in 1..NThreads |-> "off"]
    /\ tpool = [t \in 1..NThreads |-> NoCall]
    /\ tret = [t \in 1..NThreads |-> None]
    /\ ti = [t \in 1..NThreads |-> 0]

\* no MultiKellyBettor is in use
NoKelly ==
    /\ odds = <<>> /\ prob = <<>> /\ label = <<>>
    /\ kphase = "off" /\ kmsg = "" /\ prop = None

Init ==
    /\ wos \in WosInputs
    /\ c \in {Pad(cin) : cin \in CoefLists}
    /\ p_i = None /\ p_ij = None /\ p_ijk = None /\ p_ijkl = None
    /\ ret = None
    /\ call = NoCall
    /\ computed = [k \in 1..4 |-> 0]
    /\ NoThreads
    /\ NoKelly

\* one call of transform(pool), start to return or raise
transform(pool, u) ==
    /\ call = NoCall
    /\ \A k \in 1..4 : computed[k] < MaxComputes
    /\ LET st == Run(pool, u)
       IN  /\ p_i' = st.p_i
           /\ p_ij' = st.p_ij
           /\ p_ijk' = st.p_ijk
           /\ p_ijkl' = st.p_ijkl
           /\ computed' = st.computed
           /\ ret' = st.ret
    /\ call' = pool
    /\ UNCHANGED <<wos, c, tvars, kvars>>

\* the caller has taken the result (or caught the error); the instance is idle again
taken ==
    /\ call # NoCall
    /\ ret' = None
    /\ call' = NoCall
    /\ UNCHANGED <<wos, c, p_i, p_ij, p_ijk, p_ijkl, computed, tvars, kvars>>

\* whether np.divide(..., where = comp != 0) skips a cell that the masks written
\* afterwards (lines 76-77, lines 105-111) do not overwrite
Skipped3 ==
    LET p_i3 == NormPow(wos, c[3])
    IN  \E i, j, k \in 1..Len(wos) :
            /\ RSub(RSub(One, p_i3[i]), p_i3[j]) = Zero
            /\ j # k /\ i # k

Skipped4 ==
    LET p_i4 == NormPow(wos, c[4])
    IN  \E i, j, k, l \in 1..Len(wos) :
            /\ RSub(RSub(RSub(One, p_i4[k]), p_i4[i]), p_i4[j]) = Zero
            /\ i # j /\ i # k /\ i # l /\ j # k /\ j # l /\ k # l

\* the contents of an uninitialised cell only matter to a call that can keep one
UninitChoices ==
    IF call = NoCall /\ ((IsNone(p_ijk) /\ Skipped3) \/ (IsNone(p_ijkl) /\ Skipped4))
    THEN Uninit ELSE {Zero}

Next ==
    \/ \E pool \in PoolNames, u \in UninitChoices : transform(pool, u)
    \/ taken

Spec == Init /\ [][Next]_vars

(***************************************************************************)
(* Properties of ProbProber                                                *)
(***************************************************************************)
N == Len(wos)
IsErr(x) == x.tag = "ValueError"
Distinct3(i, j, k) == i # j /\ i # k /\ j # k
Distinct4(i, j, k, l) == Distinct3(i, j, k) /\ i # l /\ j # l /\ k # l

\* sums of the cells of a flat array whose index tuple satisfies P
SumWhere2(t, n, P(_, _)) ==
    RSum(Mk2(n, LAMBDA i, j : IF P(i, j) THEN At2(t, n, i, j) ELSE Zero), n * n)
SumWhere3(t, n, P(_, _, _)) ==
    RSum(Mk3(n, LAMBDA i, j, k : IF P(i, j, k) THEN At3(t, n, i, j, k) ELSE Zero), n * n * n)
SumWhere4(t, n, P(_, _, _, _)) ==
    RSum(Mk4(n, LAMBDA i, j, k, l : IF P(i, j, k, l) THEN At4(t, n, i, j, k, l) ELSE Zero),
         n * n * n * n)

\* plain Harville probability that i, j, k (, l) finish 1st, 2nd, 3rd (, 4th)
Harville3(i, j, k) ==
    LET s == SumInts(wos, N)
    IN  RMul(RMul(Frac(wos[i], s), Frac(wos[j], s - wos[i])),
             Frac(wos[k], s - wos[i] - wos[j]))
Harville4(i, j, k, l) ==
    RMul(Harville3(i, j, k), Frac(wos[l], SumInts(wos, N) - wos[i] - wos[j] - wos[k]))

\* C1: with the default coefficients the tierce and quartet outputs are the plain
\* Harville products with axis 0 = 1st place, axis 1 = 2nd place, and so on.
C1_HarvilleAxes ==
    (c = <<1, 1, 1, 1>> /\ IsArr(ret)) =>
        /\ call = "tierce" =>
               \A i, j, k \in 1..N :
                   Distinct3(i, j, k) => At3(ret.val, N, i, j, k) = Harville3(i, j, k)
        /\ call = "quartet" =>
               \A i, j, k, l \in 1..N :
                   Distinct4(i, j, k, l) =>
                       At4(ret.val, N, i, j, k, l) = Harville4(i, j, k, l)

Zero2(t) == \A i \in 1..N : At2(t, N, i, i) = Zero
Zero3(t) == \A i, j, k \in 1..N : ~Distinct3(i, j, k) => At3(t, N, i, j, k) = Zero
Zero4(t) == \A i, j, k, l \in 1..N : ~Distinct4(i, j, k, l) => At4(t, N, i, j, k, l) = Zero

\* C2: every entry of a multi-dimensional pool output, and of the cached level 2, 3
\* and 4 tensors, whose index tuple repeats a competitor is exactly 0.
C2_RepeatedIndexZero ==
    /\ IsArr(ret) /\ call \in {"quinella", "place_q"} => Zero2(ret.val)
    /\ IsArr(ret) /\ call \in {"tierce", "trio"} => Zero3(ret.val)
    /\ IsArr(ret) /\ call \in {"quartet", "first_4"} => Zero4(ret.val)
    /\ IsArr(p_ij) => Zero2(p_ij.val)
    /\ IsArr(p_ijk) => Zero3(p_ijk.val)
    /\ IsArr(p_ijkl) => Zero4(p_ijkl.val)

\* C3 as stated: the quinella, trio and first_4 outputs each sum to 1 over all
\* index tuples with pairwise-distinct entries.
C3_SymmetrizedSumOne ==
    IsArr(ret) =>
        /\ call = "quinella" => SumWhere2(ret.val, N, LAMBDA i, j : i # j) = One
        /\ call = "trio" => SumWhere3(ret.val, N, Distinct3) = One
        /\ call = "first_4" => SumWhere4(ret.val, N, Distinct4) = One

\* C3 amended: the quinella, trio and first_4 outputs each sum to 1 when every
\* unordered set of distinct competitors is counted once (increasing index tuples);
\* over all ordered distinct tuples they sum to 2, 6 and 24.
C3_SumOncePerSet ==
    IsArr(ret) =>
        /\ call = "quinella" =>
               /\ SumWhere2(ret.val, N, LAMBDA i, j : i < j) = One
               /\ SumWhere2(ret.val, N, LAMBDA i, j : i # j) = <<2, 1>>
        /\ call = "trio" =>
               /\ SumWhere3(ret.val, N, LAMBDA i, j, k : i < j /\ j < k) = One
               /\ SumWhere3(ret.val, N, Distinct3) = <<6, 1>>
        /\ call = "first_4" =>
               /\ SumWhere4(ret.val, N, LAMBDA i, j, k, l : i < j /\ j < k /\ k < l) = One
               /\ SumWhere4(ret.val, N, Distinct4) = <<24, 1>>

C3_Witness ==
    /\ call = "first_4" /\ IsArr(ret)
    /\ c = <<2, 2, 2, 2>>
    /\ SumWhere4(ret.val, N, Distinct4) = <<24, 1>>

\* C4: each order tensor sums to 1 over the index tuples with pairwise-distinct
\* entries: the win output and level 1, level 2, the tierce output and level 3, the
\* quartet output and level 4, whatever the weights and coefficients.
C4_OrderTensorSumOne ==
    /\ IsArr(p_i) => RSum(p_i.val, N) = One
    /\ IsArr(p_ij) => SumWhere2(p_ij.val, N, LAMBDA i, j : i # j) = One
    /\ IsArr(p_ijk) => SumWhere3(p_ijk.val, N, Distinct3) = One
    /\ IsArr(p_ijkl) => SumWhere4(p_ijkl.val, N, Distinct4) = One
    /\ IsArr(ret) /\ call = "win" => RSum(ret.val, N) = One
    /\ IsArr(ret) /\ call = "tierce" => SumWhere3(ret.val, N, Distinct3) = One
    /\ IsArr(ret) /\ call = "quartet" => SumWhere4(ret.val, N, Distinct4) = One

C4_Witness ==
    /\ call = "quartet" /\ IsArr(ret)
    /\ c = <<2, 2, 2, 2>>
    /\ \E i, j \in 1..N : wos[i] # wos[j]

\* the competitor counts the claim gives: the call fails when n is not above them
ClaimedBound(pool) ==
    IF pool = "win" THEN 0
    ELSE IF pool = "quinella" THEN 2
    ELSE IF pool \in {"tierce", "trio", "place", "place_q"} THEN 3
    ELSE 4

Slot(k) == IF k = 1 THEN p_i ELSE IF k = 2 THEN p_ij ELSE IF k = 3 THEN p_ijk ELSE p_ijkl
Populated == {k \in 1..4 : ~IsNone(Slot(k))}

\* C7: over any sequence of calls, failing ones included, each cache slot is computed
\* at most once and a populated slot is never changed by a later call.
C7_WriteOnce ==
    [][/\ ~IsNone(p_i) => p_i' = p_i
       /\ ~IsNone(p_ij) => p_ij' = p_ij
       /\ ~IsNone(p_ijk) => p_ijk' = p_ijk
       /\ ~IsNone(p_ijkl) => p_ijkl' = p_ijkl
       /\ \A k \in 1..4 : computed'[k] <= 1]_vars

C7_Witness ==
    /\ call = "win" /\ IsArr(ret)
    /\ Populated = {1, 2, 3, 4}
    /\ computed = <<1, 1, 1, 1>>

\* the level the claim says each pool requires
ClaimedLevel(pool) ==
    IF pool = "win" THEN 1
    ELSE IF pool = "quinella" THEN 2
    ELSE IF pool \in {"tierce", "trio", "place", "place_q"} THEN 3
    ELSE 4

\* C9: the populated levels always form a prefix 1..m, and one call never populates
\* a level above the one its pool requires.
C9_SequentialLevels ==
    [][/\ \A k \in 2..4 : (k \in Populated') => ((k - 1) \in Populated')
       /\ call' \in pools => \A k \in Populated' \ Populated : k <= ClaimedLevel(call')]_vars

C9_Witness ==
    /\ call = "quinella" /\ IsArr(ret)
    /\ Populated = {1, 2}

(***************************************************************************)
(* Two threads calling transform() on one shared ProbProber.  The class    *)
(* takes no lock, so the threads interleave between statements; a thread   *)
(* at "Lnn" is about to run line nn of prob.py.  Arrays are taken by       *)
(* value: tret[t] is what the returned array held when the call returned.  *)
(***************************************************************************)
\* pools the threads ask for: one per cache level, and one unrecognised name
ThreadPools == {"win", "quinella", "tierce", "quartet", "exacta"}
ThreadWos == {Favourite(n) : n \in 3..5}

InitConc ==
    /\ wos \in ThreadWos
    /\ c = Pad(<<>>)
    /\ p_i = None /\ p_ij = None /\ p_ijk = None /\ p_ijkl = None
    /\ ret = None /\ call = NoCall /\ computed = [k \in 1..4 |-> 0]
    /\ pc = [t \in 1..NThreads |-> "idle"]
    /\ tpool = [t \in 1..NThreads |-> NoCall]
    /\ tret = [t \in 1..NThreads |-> None]
    /\ ti = [t \in 1..NThreads |-> 0]
    /\ NoKelly

Goto(t, l) == pc' = [pc EXCEPT ![t] = l]
Returns(t, v) == tret' = [tret EXCEPT ![t] = v] /\ Goto(t, "done")
Cache == <<p_i, p_ij, p_ijk, p_ijkl>>
Fixed == <<wos, c, ret, call, computed, kvars>>

\* thread t calls transform(pool); line 46
t_call(t, pool) ==
    /\ pc[t] = "idle"
    /\ tpool' = [tpool EXCEPT ![t] = pool]
    /\ IF check_pool(pool)
       THEN Returns(t, ValueError("Invalid pool"))
       ELSE Goto(t, "L49") /\ UNCHANGED tret
    /\ UNCHANGED <<Cache, ti, Fixed>>

t_L49(t) ==
    /\ pc[t] = "L49"
    /\ Goto(t, IF NeedCompute(p_i) THEN "L50" ELSE "L53")
    /\ UNCHANGED <<Cache, tpool, tret, ti, Fixed>>

t_L50(t) ==
    /\ pc[t] = "L50"
    /\ p_i' = Arr(Level1(wos, c))
    /\ Goto(t, "L53")
    /\ UNCHANGED <<p_ij, p_ijk, p_ijkl, tpool, tret, ti, Fixed>>

\* lines 53-56
t_L53(t) ==
    /\ pc[t] = "L53"
    /\ IF tpool[t] = "win" THEN Returns(t, p_i)
       ELSE IF check_dim(Len(wos), 2) THEN Returns(t, NotEnough)
       ELSE Goto(t, "L58") /\ UNCHANGED tret
    /\ UNCHANGED <<Cache, tpool, ti, Fixed>>

t_L58(t) ==
    /\ pc[t] = "L58"
    /\ Goto(t, IF NeedCompute(p_ij) THEN "L59" ELSE "L64")
    /\ UNCHANGED <<Cache, tpool, tret, ti, Fixed>>

\* lines 59-61: the slot receives the tensor before its diagonal is cleared
t_L59(t) ==
    /\ pc[t] = "L59"
    /\ p_ij' = Arr(Level2Raw(wos, c, p_i.val))
    /\ Goto(t, "L62")
    /\ UNCHANGED <<p_i, p_ijk, p_ijkl, tpool, tret, ti, Fixed>>

t_L62(t) ==
    /\ pc[t] = "L62"
    /\ p_ij' = Arr(MaskDiag2(p_ij.val, Len(wos)))
    /\ Goto(t, "L64")
    /\ UNCHANGED <<p_i, p_ijk, p_ijkl, tpool, tret, ti, Fixed>>

\* lines 64-67
t_L64(t) ==
    /\ pc[t] = "L64"
    /\ IF tpool[t] = "quinella" THEN Returns(t, Arr(quinella(p_ij.val, Len(wos))))
       ELSE IF check_dim(Len(wos), 3) THEN Returns(t, NotEnough)
       ELSE Goto(t, "L69") /\ UNCHANGED tret
    /\ UNCHANGED <<Cache, tpool, ti, Fixed>>

t_L69(t) ==
    /\ pc[t] = "L69"
    /\ Goto(t, IF NeedCompute(p_ijk) THEN "L70" ELSE "L79")
    /\ UNCHANGED <<Cache, tpool, tret, ti, Fixed>>

\* lines 70-75, from whatever self.p_ij holds at that moment
t_L70(t, u) ==
    /\ pc[t] = "L70"
    /\ p_ijk' = Arr(Level3Raw(wos, c, p_ij.val, u))
    /\ Goto(t, "L76")
    /\ UNCHANGED <<p_i, p_ij, p_ijkl, tpool, tret, ti, Fixed>>

t_L76(t) ==
    /\ pc[t] = "L76"
    /\ p_ijk' = Arr(Mask3_210(p_ijk.val, Len(wos)))
    /\ Goto(t, "L77")
    /\ UNCHANGED <<p_i, p_ij, p_ijkl, tpool, tret, ti, Fixed>>

t_L77(t) ==
    /\ pc[t] = "L77"
    /\ p_ijk' = Arr(Mask3_201(p_ijk.val, Len(wos)))
    /\ Goto(t, "L79")
    /\ UNCHANGED <<p_i, p_ij, p_ijkl, tpool, tret, ti, Fixed>>

\* lines 79-97
t_L79(t) ==
    /\ pc[t] = "L79"
    /\ IF tpool[t] = "tierce" THEN Returns(t, p_ijk)
       ELSE IF tpool[t] = "trio" THEN Returns(t, Arr(trio(p_ijk.val, Len(wos))))
       ELSE IF tpool[t] = "place"
            THEN Returns(t, Arr(place(p_i.val, p_ij.val, p_ijk.val, Len(wos))))
       ELSE IF tpool[t] = "place_q"
            THEN Returns(t, Arr(place_q(p_ij.val, p_ijk.val, Len(wos))))
       ELSE IF check_dim(Len(wos), 4) THEN Returns(t, NotEnough)
       ELSE Goto(t, "L99") /\ UNCHANGED tret
    /\ UNCHANGED <<Cache, tpool, ti, Fixed>>

t_L99(t) ==
    /\ pc[t] = "L99"
    /\ Goto(t, IF NeedCompute(p_ijkl) THEN "L100" ELSE "L113")
    /\ UNCHANGED <<Cache, tpool, tret, ti, Fixed>>

\* lines 100-104, from whatever self.p_ijk holds at that moment
t_L100(t, u) ==
    /\ pc[t] = "L100"
    /\ p_ijkl' = Arr(Level4Raw(wos, c, p_ijk.val, u))
    /\ ti' = [ti EXCEPT ![t] = 0]
    /\ Goto(t, "L105")
    /\ UNCHANGED <<p_i, p_ij, p_ijk, tpool, tret, Fixed>>

\* one pass of the loop of lines 105-111; ti[t] passes are done
t_L105(t) ==
    /\ pc[t] = "L105"
    /\ p_ijkl' = Arr(Mask4At(p_ijkl.val, Len(wos), ti[t] + 1))
    /\ ti' = [ti EXCEPT ![t] = @ + 1]
    /\ Goto(t, IF ti[t] + 1 = Len(wos) THEN "L113" ELSE "L105")
    /\ UNCHANGED <<p_i, p_ij, p_ijk, tpool, tret, Fixed>>

\* lines 113-122
t_L113(t) ==
    /\ pc[t] = "L113"
    /\ IF tpool[t] = "quartet" THEN Returns(t, p_ijkl)
       ELSE IF tpool[t] = "first_4" THEN Returns(t, Arr(first_4(p_ijkl.val, Len(wos))))
       ELSE Returns(t, None)
    /\ UNCHANGED <<Cache, tpool, ti, Fixed>>

NextConc ==
    \E t \in 1..NThreads :
        \/ \E pool \in ThreadPools : t_call(t, pool)
        \/ t_L49(t) \/ t_L50(t) \/ t_L53(t)
        \/ t_L58(t) \/ t_L59(t) \/ t_L62(t) \/ t_L64(t)
        \/ t_L69(t) \/ \E u \in Uninit : t_L70(t, u)
        \/ t_L76(t) \/ t_L77(t) \/ t_L79(t)
        \/ t_L99(t) \/ \E u \in Uninit : t_L100(t, u)
        \/ t_L105(t) \/ t_L113(t)

SpecConc == InitConc /\ [][NextConc]_vars

\* C8: a thread calling transform() while another thread is inside it never finds
\* a populated slot whose masks are not all applied, and never returns a tensor
\* computed from one.
C8_NoPartialSlotSeen ==
    \A t \in 1..NThreads :
        /\ (pc[t] = "L58" /\ ~NeedCompute(p_ij)) => Zero2(p_ij.val)
        /\ (pc[t] = "L69" /\ ~NeedCompute(p_ijk)) => Zero3(p_ijk.val)
        /\ (pc[t] = "L99" /\ ~NeedCompute(p_ijkl)) => Zero4(p_ijkl.val)
        /\ (pc[t] = "done" /\ IsArr(tret[t]) /\ tpool[t] = "quinella") => Zero2(tret[t].val)
        /\ (pc[t] = "done" /\ IsArr(tret[t]) /\ tpool[t] = "tierce") => Zero3(tret[t].val)
        /\ (pc[t] = "done" /\ IsArr(tret[t]) /\ tpool[t] = "quartet") => Zero4(tret[t].val)

(***************************************************************************)
(* kelly.py : MultiKellyBettor                                             *)
(***************************************************************************)
\* the literal of the sum check, line 33
SumSlack == 1000000

OddsVals == {<<1, 1>>, <<3, 2>>, <<2, 1>>, <<3, 1>>}
ProbVals == {<<1, 4>>, <<1, 2>>, <<1, 1>>}
Names == <<"h1", "h2", "h3", "h4", "h5">>

OddsInputs == UNION {[1..n -> OddsVals] : n \in 1..MaxK}
ProbInputs == UNION {[1..n -> ProbVals] : n \in 1..MaxK}
\* no labels, one per competitor, or one too many
LabelInputs(n) == {<<>>, SubSeq(Names, 1, n), SubSeq(Names, 1, n + 1)}

InitKelly ==
    /\ odds \in OddsInputs
    /\ prob \in ProbInputs
    /\ label \in LabelInputs(Len(odds))
    /\ kphase = "new" /\ kmsg = "" /\ prop = None
    /\ wos = <<>> /\ c = <<>>
    /\ p_i = None /\ p_ij = None /\ p_ijk = None /\ p_ijkl = None
    /\ ret = None /\ call = NoCall /\ computed = [k \in 1..4 |-> 0]
    /\ NoThreads

\* `np.sum(self.prob) - 1 > 1e6`
SumCheck(pr) == RLess(<<SumSlack, 1>>, RSub(RSum(pr, Len(pr)), One))

\* the message of the first check of __init__ that fails, "" when none does
\* (odds and prob are one-dimensional here, so the check of line 29 passes)
InitError(od, pr, lb) ==
    IF Len(od) # Len(pr) THEN "The length of odds does not match the length of prob."
    ELSE IF SumCheck(pr) THEN "prob does not sum up to 1."
    ELSE IF \E i \in 1..Len(od) : ~RLess(One, od[i]) THEN "odds must be all larger than 1."
    ELSE IF lb # <<>> /\ Len(od) # Len(lb) THEN "The length of label does not match."
    ELSE ""

\* MultiKellyBettor.__init__
construct ==
    /\ kphase = "new"
    /\ LET e == InitError(odds, prob, label)
       IN  /\ kmsg' = e
           /\ kphase' = IF e = "" THEN "constructed" ELSE "raised"
    /\ UNCHANGED <<odds, prob, label, prop, pvars, tvars>>

\* values of the array tmp: a rational, or what a division by zero leaves
Num(x) == [kind |-> "num", v |-> x]
Inf == [kind |-> "inf", v |-> Zero]
NegInf == [kind |-> "-inf", v |-> Zero]
NaN == [kind |-> "nan", v |-> Zero]

\* numpy float division a / b
FloatDiv(a, b) ==
    IF b # Zero THEN Num(RDiv(a, b))
    ELSE IF a = Zero THEN NaN
    ELSE IF RLess(Zero, a) THEN Inf ELSE NegInf

Positive(x) == x.kind = "inf" \/ (x.kind = "num" /\ RLess(Zero, x.v))

\* np.argsort(eret)[::-1]: an order of the competitors by descending expected
\* return; ties in any order
SortOrders(eret) ==
    {ix \in [1..Len(eret) -> 1..Len(eret)] :
        /\ \A a, b \in 1..Len(eret) : ix[a] = ix[b] => a = b
        /\ \A a \in 1..(Len(eret) - 1) : ~RLess(eret[ix[a]], eret[ix[a + 1]])}

\* tmp[tmp > 0], as the sequence of the kept values in order
RECURSIVE Keep(_, _)
Keep(tmp, n) ==
    IF n = 0 THEN <<>>
    ELSE IF Positive(tmp[n]) THEN Append(Keep(tmp, n - 1), tmp[n]) ELSE Keep(tmp, n - 1)

RECURSIVE MinOf(_, _)
\* tmp.min() of a non-empty sequence of positive values
MinOf(tmp, n) ==
    IF n = 1 THEN tmp[1]
    ELSE LET m == MinOf(tmp, n - 1)
         IN  IF tmp[n].kind = "inf" THEN m
             ELSE IF m.kind = "inf" THEN tmp[n]
             ELSE IF RLess(tmp[n].v, m.v) THEN tmp[n] ELSE m

\* lines 45-66 with the sort order ix; the dictionary is keyed by competitor
\* (label[i] names competitor i); "raise" when tmp.min() has nothing to reduce
KellyRun(od, pr, ix) ==
    LET n == Len(od)
        \* eret = [o * p ...]; odds, prob, eret reordered by indices
        eret == [i \in 1..n |-> RMul(od[i], pr[i])]
        sodds == [k \in 1..n |-> od[ix[k]]]
        sprob == [k \in 1..n |-> pr[ix[k]]]
        \* rodds = 1 / odds; csprob, csrodds = cumsum
        csprob == [k \in 1..n |-> RSum(sprob, k)]
        csrodds == [k \in 1..n |-> RSum([m \in 1..n |-> RDiv(One, sodds[m])], k)]
        tmp == [k \in 1..n |->
                   FloatDiv(RSub(One, csprob[k]), RSub(One, csrodds[k]))]
        \* tmp = tmp[tmp > 0]; v = tmp.min()
        kept == Keep(tmp, n)
        v == MinOf(kept, Len(kept))
        \* bf = prob - v / odds; bf = np.where(bf < 0, 0, bf)
        bf == [k \in 1..n |->
                  IF v.kind = "inf" THEN Zero
                  ELSE LET b == RSub(sprob[k], RDiv(v.v, sodds[k]))
                       IN  IF RLess(b, Zero) THEN Zero ELSE b]
    IN  IF ~RLess(One, eret[ix[1]]) THEN Arr([i \in 1..n |-> Zero])
        ELSE IF Len(kept) = 0 THEN ValueError("zero-size array to reduction operation")
        \* for k in range(len(tmp)): prop[self.label[indices[k]]] = bf[k]
        ELSE Arr([i \in 1..n |->
                     LET k == CHOOSE m \in 1..n : ix[m] = i
                     IN  IF k <= Len(kept) THEN bf[k] ELSE Zero])

\* MultiKellyBettor.transform
ktransform ==
    /\ kphase = "constructed"
    /\ \E ix \in SortOrders([i \in 1..Len(odds) |-> RMul(odds[i], prob[i])]) :
           prop' = KellyRun(odds, prob, ix)
    /\ kphase' = "transformed"
    /\ UNCHANGED <<odds, prob, label, kmsg, pvars, tvars>>

NextKelly == construct \/ ktransform

SpecKelly == InitKelly /\ [][NextKelly]_vars

\* C6: constructing a MultiKellyBettor fails whenever the probabilities do not sum
\* to 1 within 1e-6 (odds and prob of equal length, all odds above 1).
C6_RejectsBadSum ==
    (/\ kphase \in {"constructed", "raised", "transformed"}
     /\ Len(odds) = Len(prob)
     /\ \A i \in 1..Len(odds) : RLess(One, odds[i])
     /\ RLess(<<1, 1000000>>, LET d == RSub(RSum(prob, Len(prob)), One)
                               IN  <<Abs(d[1]), d[2]>>))
        => kphase = "raised"

\* C10: after transform() on an accepted input two competitors with the same odds
\* and the same probability have the same proportion.
C10_TiesEqual ==
    (kphase = "transformed" /\ IsArr(prop)) =>
        \A i, j \in 1..Len(odds) :
            (odds[i] = odds[j] /\ prob[i] = prob[j]) => prop.val[i] = prop.val[j]

====
